---- MODULE Spec2Model ----
(***************************************************************************)
(* A model of EventQueue (src/js/event-queue.js): one instance and the     *)
(* listeners that the instance has put on the document for its id.         *)
(*                                                                         *)
(* The document's dispatch is the DOM's: dispatchEvent runs every listener *)
(* registered for the event type before it returns, so triggerEvent is one *)
(* step that contains every _pollProgress run it causes.                   *)
(*                                                                         *)
(* _destroyListeners calls document.removeEventListener(this.id) without a *)
(* listener argument.  No listener is removed by that call on any engine;  *)
(* on the engine of the repository's test runner (gulp-mocha-phantomjs,    *)
(* src/gulpfile.js) the call returns normally, which is what the tests of  *)
(* reset() and of the drain rely on, and that is the behaviour modelled.   *)
(***************************************************************************)
EXTENDS Integers, Sequences, FiniteSets, TLC

(* ------------------------------ bounds --------------------------------- *)

\* longest _queue the model lets queueEvent produce
MaxQueue == 3
\* number of successful build() calls of the instance
MaxBuilds == 3
\* number of queueEvent calls between two resets
MaxEnq == 2
\* largest count argument of queueEvent
MaxCount == 2

Names == {"a", "b"}

\* the count argument of queueEvent: <<>> when omitted, <<n>> when given
\* (a count below 1 is an argument the loop of queueEvent accepts)
CountArgs == {<<>>} \cup {<<n>> : n \in (0 - 1)..MaxCount}

\* the functions addCallback is called with: "user" leaves the instance
\* alone, the others call methods of the instance they are the callback of
UserCallbacks == {"user", "enqueue", "setCallback", "rebuild"}

\* the name those callbacks pass to queueEvent
CallbackName == "a"

(* ------------------------------- state --------------------------------- *)

VARIABLES
    queue,            \* this._queue
    events,           \* this._events
    completedEvents,  \* this._completedEvents
    hasBuilt,         \* this._hasBuilt
    callback,         \* this._callback: "noop" is function () {}
    targetCount,      \* this._targetCount
    listeners,        \* listeners on document for this.id
    cbCalls,          \* observer: number of runs of this._callback()
    reports,          \* observer: triggerEvent calls that returned since build
    enq,              \* observer: <<name, count>> of each queueEvent since reset
    used,             \* observer: a method other than isComplete was called
    last,             \* observer: the last call and how it ended
    stagedAtBuild,    \* observer: the names the last build() moved to _events
    ranCallback       \* observer: the callback the last call ran, if any

fields == <<queue, events, completedEvents, hasBuilt, targetCount>>
vars == <<queue, events, completedEvents, hasBuilt, callback, targetCount,
          listeners, cbCalls, reports, enq, used, last, stagedAtBuild,
          ranCallback>>

\* the instance as a value, for the methods that run inside a dispatch
Obj ==
    [queue |-> queue, events |-> events, completedEvents |-> completedEvents,
     hasBuilt |-> hasBuilt, callback |-> callback, targetCount |-> targetCount,
     listeners |-> listeners, cbCalls |-> cbCalls]

\* the fields a new EventQueue() has
EventQueue ==
    [queue |-> <<>>, events |-> <<>>, completedEvents |-> <<>>,
     hasBuilt |-> FALSE, callback |-> "noop", targetCount |-> 0,
     listeners |-> 0, cbCalls |-> 0]

Call(op, name, threw, ret) ==
    [op |-> op, name |-> name, threw |-> threw, ret |-> ret]

(* ------------------------- Array.prototype ----------------------------- *)

\* Array.prototype.indexOf: 0-based index of the first match, -1 if none
IndexOf(arr, x) ==
    IF \E i \in 1..Len(arr) : arr[i] = x
    THEN (CHOOSE i \in 1..Len(arr) :
              arr[i] = x /\ \A j \in 1..(i - 1) : arr[j] # x) - 1
    ELSE 0 - 1

\* Array.prototype.splice(start, 1): a negative start counts from the end
Splice1(arr, start) ==
    LET len == Len(arr)
        from == IF start < 0
                THEN (IF len + start < 0 THEN 0 ELSE len + start)
                ELSE (IF start > len THEN len ELSE start)
    IN  IF from >= len
        THEN arr
        ELSE SubSeq(arr, 1, from) \o SubSeq(arr, from + 2, len)

\* name pushed times times
RECURSIVE Repeat(_, _)
Repeat(name, times) ==
    IF times <= 0 THEN <<>> ELSE <<name>> \o Repeat(name, times - 1)

(* ------------------------------ methods -------------------------------- *)

\* queueEvent as it would read with its loop running while i <= count
PushedInclusive(name, count) ==
    IF count # <<>> THEN Repeat(name, count[1] + 1) ELSE <<name>>

\* what queueEvent pushes
Pushed(name, count) ==
    IF count # <<>> THEN Repeat(name, count[1]) ELSE <<name>>

\* array === number: the operands differ in type, so the result is false
StrictEqualsNumber(arr, num) == FALSE

\* isComplete as it would read with this._events.length === 0
isCompleteByLength(o) ==
    /\ Len(o.queue) = 0
    /\ Len(o.events) = 0
    /\ Len(o.completedEvents) = o.targetCount

isComplete(o) ==
    /\ Len(o.queue) = 0
    /\ StrictEqualsNumber(o.events, 0)
    /\ Len(o.completedEvents) = o.targetCount

\* document.removeEventListener(this.id): no listener is named, none goes
destroyListeners(o) == o

buildListeners(o) == [o EXCEPT !.listeners = @ + 1]

\* reset as it would read without this._completedEvents = []
resetKeepsCompleted(o) ==
    [destroyListeners([o EXCEPT !.queue = <<>>, !.events = <<>>,
                                !.hasBuilt = FALSE, !.targetCount = 0])
        EXCEPT !.callback = "noop"]

reset(o) ==
    [destroyListeners([o EXCEPT !.queue = <<>>, !.events = <<>>,
                                !.completedEvents = <<>>, !.hasBuilt = FALSE,
                                !.targetCount = 0])
        EXCEPT !.callback = "noop"]

\* build as it would read without the !this._hasBuilt test
buildOkNoBuiltCheck(o) == Len(o.queue) > 0

\* the branch of build that builds
buildOk(o) == ~o.hasBuilt /\ Len(o.queue) > 0

\* build as it would read with its loop starting at i = 1
buildSkipsFirst(o) ==
    buildListeners([o EXCEPT !.targetCount = Len(o.queue),
                             !.events = @ \o Tail(o.queue),
                             !.queue = <<>>])

build(o) ==
    buildListeners([o EXCEPT !.targetCount = Len(o.queue),
                             !.events = @ \o o.queue,
                             !.queue = <<>>])

\* this._callback(): "noop" and "user" leave the instance alone,
\* "enqueue" calls queueEvent, "setCallback" calls addCallback and
\* "rebuild" calls reset(), queueEvent and build()
runCallback(o) ==
    LET ran == [o EXCEPT !.cbCalls = @ + 1]
    IN  CASE o.callback = "enqueue" ->
                 [ran EXCEPT !.queue = @ \o Pushed(CallbackName, <<>>)]
          [] o.callback = "setCallback" ->
                 [ran EXCEPT !.callback = "user"]
          [] o.callback = "rebuild" ->
                 [build([reset(ran) EXCEPT
                            !.queue = @ \o Pushed(CallbackName, <<>>)])
                     EXCEPT !.hasBuilt = TRUE]
          [] OTHER -> ran

\* the first three lines of _pollProgress: the instance as the callback
\* finds it
recordEvent(o, name) ==
    LET index == IndexOf(o.events, name)
    IN  [o EXCEPT !.events = Splice1(@, index),
                  !.completedEvents = Append(@, name)]

\* _pollProgress as it would read with reset() before this._callback()
pollProgressResetFirst(o, name) ==
    LET o1 == recordEvent(o, name)
    IN  IF Len(o1.completedEvents) = o1.targetCount
        THEN runCallback([reset(o1) EXCEPT !.callback = o1.callback])
        ELSE o1

pollProgress(o, name) ==
    LET o1 == recordEvent(o, name)
    IN  IF Len(o1.completedEvents) = o1.targetCount
        THEN reset(runCallback(o1))
        ELSE o1

\* a dispatch that would return before any listener has run
dispatchEventDeferred(o, name, n) == o

\* document.dispatchEvent: the listeners registered when the dispatch starts
\* run one after the other, each calling _pollProgress
RECURSIVE dispatchEvent(_, _, _)
dispatchEvent(o, name, n) ==
    IF n = 0 THEN o ELSE dispatchEvent(pollProgress(o, name), name, n - 1)

\* triggerEvent as it would read without the indexOf test
triggerOkNoLookup(o, name) == o.hasBuilt

\* triggerEvent as it would read without either test
triggerOkNoChecks(o, name) == TRUE

\* the branch of triggerEvent that dispatches
triggerOk(o, name) == o.hasBuilt /\ IndexOf(o.events, name) # 0 - 1

(* ------------------------------ actions -------------------------------- *)

Install(o) ==
    /\ queue' = o.queue
    /\ events' = o.events
    /\ completedEvents' = o.completedEvents
    /\ hasBuilt' = o.hasBuilt
    /\ callback' = o.callback
    /\ targetCount' = o.targetCount
    /\ listeners' = o.listeners
    /\ cbCalls' = o.cbCalls

Init ==
    /\ queue = EventQueue.queue
    /\ events = EventQueue.events
    /\ completedEvents = EventQueue.completedEvents
    /\ hasBuilt = EventQueue.hasBuilt
    /\ callback = EventQueue.callback
    /\ targetCount = EventQueue.targetCount
    /\ listeners = EventQueue.listeners
    /\ cbCalls = EventQueue.cbCalls
    /\ reports = 0
    /\ enq = <<>>
    /\ used = FALSE
    /\ last = Call("new", "", FALSE, FALSE)
    /\ stagedAtBuild = <<>>
    /\ ranCallback = "none"

QueueEvent(name, count) ==
    /\ Len(enq) < MaxEnq
    /\ Len(queue) + Len(Pushed(name, count)) <= MaxQueue
    /\ Install([Obj EXCEPT !.queue = @ \o Pushed(name, count)])
    /\ enq' = Append(enq, <<name, IF count = <<>> THEN 1 ELSE count[1]>>)
    /\ used' = TRUE
    /\ last' = Call("queueEvent", name, FALSE, FALSE)
    /\ ranCallback' = "none"
    /\ UNCHANGED <<reports, stagedAtBuild>>

AddCallback(cb) ==
    /\ Install([Obj EXCEPT !.callback = cb])
    /\ used' = TRUE
    /\ last' = Call("addCallback", "", FALSE, FALSE)
    /\ ranCallback' = "none"
    /\ UNCHANGED <<reports, enq, stagedAtBuild>>

IsComplete ==
    /\ last' = Call("isComplete", "", FALSE, isComplete(Obj))
    /\ ranCallback' = "none"
    /\ UNCHANGED <<queue, events, completedEvents, hasBuilt, callback,
                   targetCount, listeners, cbCalls, reports, enq, used,
                   stagedAtBuild>>

Reset ==
    /\ Install(reset(Obj))
    /\ enq' = <<>>
    /\ used' = TRUE
    /\ last' = Call("reset", "", FALSE, FALSE)
    /\ stagedAtBuild' = <<>>
    /\ ranCallback' = "none"
    /\ UNCHANGED reports

TriggerEvent(name) ==
    /\ used' = TRUE
    /\ IF triggerOk(Obj, name)
       THEN /\ dispatchEvent(Obj, name, listeners).listeners <= MaxBuilds
            /\ Install(dispatchEvent(Obj, name, listeners))
            /\ reports' = reports + 1
            /\ enq' = IF dispatchEvent(Obj, name, listeners).hasBuilt
                      THEN enq ELSE <<>>
            /\ stagedAtBuild' = IF dispatchEvent(Obj, name, listeners).hasBuilt
                                THEN stagedAtBuild ELSE <<>>
            /\ ranCallback' =
                   IF dispatchEvent(Obj, name, listeners).cbCalls # cbCalls
                   THEN callback ELSE "none"
            /\ last' = Call("triggerEvent", name, FALSE, FALSE)
       ELSE /\ Install(destroyListeners(Obj))
            /\ last' = Call("triggerEvent", name, TRUE, FALSE)
            /\ ranCallback' = "none"
            /\ UNCHANGED <<reports, enq, stagedAtBuild>>

Build ==
    /\ used' = TRUE
    /\ IF buildOk(Obj)
       THEN /\ listeners < MaxBuilds
            /\ Install([build(Obj) EXCEPT !.hasBuilt = TRUE])
            /\ reports' = 0
            /\ last' = Call("build", "", FALSE, FALSE)
            /\ stagedAtBuild' = queue
            /\ ranCallback' = "none"
            /\ UNCHANGED enq
       ELSE /\ Install(destroyListeners(Obj))
            /\ last' = Call("build", "", TRUE, FALSE)
            /\ ranCallback' = "none"
            /\ UNCHANGED <<reports, enq, stagedAtBuild>>

Next ==
    \/ \E name \in Names, count \in CountArgs : QueueEvent(name, count)
    \/ \E cb \in UserCallbacks : AddCallback(cb)
    \/ IsComplete
    \/ Reset
    \/ \E name \in Names : TriggerEvent(name)
    \/ Build

Spec == Init /\ [][Next]_vars

(* ------------------------------ claims --------------------------------- *)

Range(arr) == {arr[i] : i \in DOMAIN arr}

Count(arr, x) == Cardinality({i \in DOMAIN arr : arr[i] = x})

\* the state a new EventQueue() is in
IsFresh(o) ==
    /\ o.queue = <<>>
    /\ o.events = <<>>
    /\ o.completedEvents = <<>>
    /\ o.targetCount = 0
    /\ o.hasBuilt = FALSE
    /\ o.callback = "noop"

\* a triggerEvent(name) call that returns, and a build() call that returns
\* (the test of last' comes first: it tells most steps apart at once)
Called(op, name) == last'.op = op /\ last'.name = name
Reported(name) ==
    Called("triggerEvent", name) /\ ~last'.threw /\ TriggerEvent(name)
Built == Called("build", "") /\ ~last'.threw /\ Build

\* the counts of the queueEvent calls added up, as given and as the loop
\* of queueEvent runs them
RECURSIVE SumOfCounts(_)
SumOfCounts(calls) ==
    IF calls = <<>> THEN 0 ELSE calls[1][2] + SumOfCounts(Tail(calls))

RECURSIVE StagedBy(_)
StagedBy(calls) ==
    IF calls = <<>> THEN <<>>
    ELSE [i \in 1..(IF calls[1][2] > 0 THEN calls[1][2] ELSE 0) |-> calls[1][1]]
         \o StagedBy(Tail(calls))

\* C1: the callback runs in a triggerEvent call exactly when that call is
\* the targetCount-th one to return since build(), and never more than once
\* in a call.
C1_CallbackAtTargetCount ==
    [][\A name \in Names :
          Reported(name) =>
              /\ (cbCalls' # cbCalls) <=> (reports' = targetCount)
              /\ cbCalls' <= cbCalls + 1]_vars

\* C2 as stated: a build() that returns leaves targetCount at the sum of the
\* counts given to queueEvent since the last reset, _events holding the
\* staged names in staging order, _queue empty and _hasBuilt true.
C2_TargetIsSumOfCounts ==
    [][Built =>
          /\ targetCount' = SumOfCounts(enq)
          /\ events' = StagedBy(enq)
          /\ queue' = <<>>
          /\ hasBuilt']_vars

\* C2 as amended: the same, with every count below 1 adding nothing to the
\* sum.
C2_TargetIsSumOfStaged ==
    [][Built =>
          /\ targetCount' = Len(StagedBy(enq))
          /\ events' = StagedBy(enq)
          /\ queue' = <<>>
          /\ hasBuilt']_vars

C2_Witness ==
    /\ last.op = "build" /\ ~last.threw
    /\ Len(enq) = 2 /\ enq[1][2] < 0
    /\ events = <<"b", "b">>
    /\ listeners = 2

\* C3: the triggerEvent call that is the targetCount-th to return since
\* build() leaves the instance in the state of a new EventQueue().
C3_DrainLeavesFresh ==
    [][\A name \in Names :
          (Reported(name) /\ reports' = targetCount) => IsFresh(Obj)']_vars

\* C4: triggerEvent(name) on a built instance whose _events holds no name
\* throws, runs no callback and leaves every field as it was.
C4_UnknownNameThrows ==
    [][\A name \in Names :
          (/\ hasBuilt /\ name \notin Range(events)
           /\ Called("triggerEvent", name) /\ TriggerEvent(name)) =>
              /\ last'.threw
              /\ UNCHANGED <<fields, callback, cbCalls>>]_vars

C4_Witness ==
    /\ last.op = "triggerEvent" /\ last.threw
    /\ hasBuilt
    /\ events # <<>>
    /\ last.name \notin Range(events)
    /\ last.name \in Range(completedEvents)

\* C5: triggerEvent(name) on an instance that is not built throws and leaves
\* every field as it was, whatever the name.
C5_NotBuiltThrows ==
    [][\A name \in Names :
          (~hasBuilt /\ Called("triggerEvent", name) /\ TriggerEvent(name)) =>
              /\ last'.threw
              /\ UNCHANGED <<fields, callback, cbCalls>>]_vars

C5_Witness ==
    /\ last.op = "triggerEvent" /\ last.threw
    /\ ~hasBuilt
    /\ listeners > 0
    /\ last.name \in Range(queue)

\* C6: build() on a built instance, or on one that is not built and has an
\* empty _queue, throws and leaves every field as it was.
C6_BuildFailureKeepsFields ==
    [][((hasBuilt \/ queue = <<>>) /\ Called("build", "") /\ Build) =>
          /\ last'.threw
          /\ UNCHANGED <<fields, callback, cbCalls>>]_vars

C6_Witness ==
    /\ last.op = "build" /\ last.threw
    /\ hasBuilt
    /\ queue # <<>>
    /\ completedEvents # <<>>

\* C7: reset() returns from every state and leaves the instance in the state
\* of a new EventQueue(); a reset() right after a reset() changes nothing.
C7_ResetLeavesFresh ==
    [][(Called("reset", "") /\ Reset) =>
          /\ ~last'.threw
          /\ IsFresh(Obj)'
          /\ (last.op = "reset" =>
                 UNCHANGED <<fields, callback, cbCalls, listeners>>)]_vars

C7_Witness ==
    /\ last.op = "reset"
    /\ IsFresh(Obj)
    /\ reports > 0
    /\ cbCalls = 0

\* C8: a triggerEvent(name) call that returns has, when _events held more
\* than this occurrence, appended name once to _completedEvents and taken
\* one name and nothing else out of _events, and has otherwise run the
\* callback.
C8_RecordedOnReturn ==
    [][\A name \in Names :
          Reported(name) =>
              IF Len(events) > 1
              THEN /\ completedEvents' = Append(completedEvents, name)
                   /\ \A x \in Names :
                         Count(events', x) =
                             Count(events, x) - (IF x = name THEN 1 ELSE 0)
              ELSE cbCalls' = cbCalls + 1]_vars

\* C9: isComplete() returns true exactly when _queue and _events are empty
\* and _completedEvents is as long as _targetCount.
C9_IsCompleteIff ==
    last.op = "isComplete" =>
        (last.ret <=> /\ queue = <<>>
                      /\ events = <<>>
                      /\ Len(completedEvents) = targetCount)

\* C10: isComplete() returns false on a new EventQueue() on which nothing
\* else has been called.
C10_NewIsNotComplete ==
    (~used /\ last.op = "isComplete") => last.ret = FALSE

C10_Witness ==
    /\ ~used
    /\ last.op = "isComplete"
    /\ ~last.ret
    /\ IsFresh(Obj)

\* C11: while the instance is built, _queue is empty.
C11_BuiltHasEmptyQueue ==
    hasBuilt => queue = <<>>

\* C12: the triggerEvent call that is the targetCount-th to return since
\* build() has run the callback and left the instance not built.
C12_AllReportedDrains ==
    [][\A name \in Names :
          (Reported(name) /\ reports' = targetCount) =>
              /\ cbCalls' = cbCalls + 1
              /\ ~hasBuilt']_vars

\* C13: right after a call has thrown on a built instance, a triggerEvent
\* call changes neither _events nor _completedEvents and runs no callback.
C13_FailedInstanceIsDeaf ==
    [][\A name \in Names :
          (/\ last.threw /\ hasBuilt
           /\ Called("triggerEvent", name) /\ TriggerEvent(name)) =>
              UNCHANGED <<events, completedEvents, cbCalls>>]_vars

\* C14: within one triggerEvent call, once a listener's _pollProgress has
\* reset the instance, the runs of the listeners after it change no field
\* and run no callback.
C14_DeliveryAfterResetIgnored ==
    [][\A name \in Names :
          Reported(name) =>
              \A j \in 1..(listeners - 1) :
                  ~dispatchEvent(Obj, name, j).hasBuilt =>
                      /\ Obj' = [dispatchEvent(Obj, name, j)
                                    EXCEPT !.listeners = listeners']]_vars

\* C15: the document holds at most one listener for this.id.
C15_AtMostOneListener ==
    listeners <= 1

\* C17: while the instance is built, _completedEvents is no longer than
\* _targetCount.
C17_CompletedAtMostTarget ==
    hasBuilt => Len(completedEvents) <= targetCount

\* C18 as stated: a triggerEvent call that returns has changed neither
\* _events nor _completedEvents.
C18_ReportChangesNothing ==
    [][\A name \in Names :
          Reported(name) => UNCHANGED <<events, completedEvents>>]_vars

\* C18 as amended: a triggerEvent(name) call that returns has either run the
\* callback and left the instance not built, or appended name to
\* _completedEvents (and nothing else) and taken an occurrence of name out
\* of _events.
C18_ReportIsDeliveredOnReturn ==
    [][\A name \in Names :
          Reported(name) =>
              \/ cbCalls' = cbCalls + 1 /\ ~hasBuilt'
              \/ /\ hasBuilt'
                 /\ cbCalls' = cbCalls
                 /\ Len(completedEvents') > Len(completedEvents)
                 /\ \A i \in DOMAIN completedEvents' :
                       completedEvents'[i] =
                           IF i <= Len(completedEvents)
                           THEN completedEvents[i] ELSE name
                 /\ Count(events', name) < Count(events, name)]_vars

C18_Witness ==
    /\ last.op = "triggerEvent" /\ ~last.threw
    /\ hasBuilt
    /\ listeners = 1
    /\ completedEvents = <<last.name>>
    /\ events # <<>>

\* the copies of its name a queueEvent call with this count argument stages
Copies(count) ==
    IF count = <<>> THEN 1 ELSE IF count[1] > 0 THEN count[1] ELSE 0

C16_PendingIsStagedMinusCompleted ==
    [][/\ hasBuilt' =>
             \A x \in Names :
                 Count(events', x) =
                     Count(stagedAtBuild', x) - Count(completedEvents', x)
       /\ \A name \in Names :
             Reported(name) =>
                 \A j \in 1..listeners :
                     LET pre == dispatchEvent(Obj, name, j - 1)
                         post == pollProgress(pre, name)
                     IN  (pre.hasBuilt /\ post.hasBuilt) =>
                             \A x \in Names :
                                 Count(post.events, x) =
                                     Count(pre.events, x)
                                         - (IF x = name THEN 1 ELSE 0)]_vars

\* C20: in every run of _pollProgress that runs the callback, the callback
\* finds the instance built with _completedEvents as long as _targetCount,
\* and the run leaves the instance in the state of a new EventQueue(),
\* whatever the callback has called.
C20_CallbackEffectsDiscarded ==
    [][\A name \in Names :
          Reported(name) =>
              \A j \in 1..listeners :
                  LET pre == dispatchEvent(Obj, name, j - 1)
                      seen == recordEvent(pre, name)
                      post == pollProgress(pre, name)
                  IN  post.cbCalls # pre.cbCalls =>
                          /\ seen.hasBuilt
                          /\ Len(seen.completedEvents) = seen.targetCount
                          /\ IsFresh(post)]_vars

C20_Witness ==
    /\ last.op = "triggerEvent" /\ ~last.threw
    /\ ranCallback = "rebuild"
    /\ listeners = 2
    /\ IsFresh(Obj)

====
